---- MODULE Spec2Model ----
(***************************************************************************)
(* One session of the audio relay of src/main.py: the websocket handler    *)
(* websocket_call (the relay loop), the thread deepgram_agent_thread (the   *)
(* forwarding task), the thread keep_alive, and the two callbacks the       *)
(* upstream connection invokes (on_audio_data, on_conversation_text).       *)
(* The client and the upstream agent are the environment.                   *)
(***************************************************************************)
EXTENDS Integers, Sequences, FiniteSets, TLC

(* ---------------- bounds of the model ---------------- *)
MaxClientFrames == 2
MaxAgentFrames == 1
MaxEvents == 1
MaxKeepAlive == 2

(* ---------------- inputs ---------------- *)
\* frames the client sends (raw PCM bytes)
ClientFrames == {<<1, 2>>, <<3, 4>>}
\* frames the agent emits
AgentFrames == {<<170, 187>>}
\* conversation events (conversation_text.__dict__)
Events == {[role |-> "assistant", content |-> "hi"]}

(* ---------------- pure functions ---------------- *)
RECURSIVE Pow(_, _)
Pow(b, e) == IF e = 0 THEN 1 ELSE b * Pow(b, e - 1)

\* int.to_bytes(w, 'little')
ToBytesLE(n, w) == [i \in 1..w |-> (n \div Pow(256, i - 1)) % 256]

SampleRate == 24000
BitsPerSample == 16
Channels == 1

RIFF == <<82, 73, 70, 70>>
WAVE == <<87, 65, 86, 69>>
FMT == <<102, 109, 116, 32>>
DATA == <<100, 97, 116, 97>>

\* (variant) byte_rate is computed without the channel count
create_wav_header_MonoByteRate(sample_rate, bits_per_sample, channels) ==
    LET byte_rate == sample_rate * (bits_per_sample \div 8)
        block_align == channels * (bits_per_sample \div 8)
    IN  RIFF \o ToBytesLE(36, 4) \o WAVE \o FMT \o ToBytesLE(16, 4)
        \o ToBytesLE(1, 2) \o ToBytesLE(channels, 2)
        \o ToBytesLE(sample_rate, 4) \o ToBytesLE(byte_rate, 4)
        \o ToBytesLE(block_align, 2) \o ToBytesLE(bits_per_sample, 2)
        \o DATA \o ToBytesLE(0, 4)

\* (variant) the header stops after the 'data' tag, without the data size
create_wav_header_NoDataSize(sample_rate, bits_per_sample, channels) ==
    LET byte_rate == sample_rate * channels * (bits_per_sample \div 8)
        block_align == channels * (bits_per_sample \div 8)
    IN  RIFF \o ToBytesLE(36, 4) \o WAVE \o FMT \o ToBytesLE(16, 4)
        \o ToBytesLE(1, 2) \o ToBytesLE(channels, 2)
        \o ToBytesLE(sample_rate, 4) \o ToBytesLE(byte_rate, 4)
        \o ToBytesLE(block_align, 2) \o ToBytesLE(bits_per_sample, 2)
        \o DATA

create_wav_header(sample_rate, bits_per_sample, channels) ==
    LET byte_rate == sample_rate * channels * (bits_per_sample \div 8)
        block_align == channels * (bits_per_sample \div 8)
    IN  RIFF \o ToBytesLE(36, 4) \o WAVE \o FMT \o ToBytesLE(16, 4)
        \o ToBytesLE(1, 2) \o ToBytesLE(channels, 2)
        \o ToBytesLE(sample_rate, 4) \o ToBytesLE(byte_rate, 4)
        \o ToBytesLE(block_align, 2) \o ToBytesLE(bits_per_sample, 2)
        \o DATA \o ToBytesLE(0, 4)

\* json.dumps(transcript) + "\n", as the sequence of its tokens
TranscriptLine(e) ==
    <<"{", "role", ":", e.role, ",", "content", ":", e.content, "}", "\n">>

\* the message of websocket.send_json
TranscriptMessage(e) == [type |-> "transcript", data |-> e]

\* the value of the local `transcript` before the first event is taken
NoEvent == [role |-> "", content |-> ""]

\* (variant) set() flips the flag
EventSet_Toggle(flag) == ~flag

\* threading.Event.set()
EventSet(flag) == TRUE

Min(a, b) == IF a < b THEN a ELSE b

(* ---------------- state ---------------- *)
VARIABLES
    relayPc,              \* position of websocket_call
    relayExit,            \* how websocket_call ended
    agentPc,              \* position of deepgram_agent_thread
    agentExit,            \* how deepgram_agent_thread ended
    kaPc,                 \* position of keep_alive
    connState,            \* the upstream connection
    processing_complete,  \* threading.Event
    setCount,             \* calls of processing_complete.set()
    client_audio_queue,
    agent_audio_queue,
    transcript_queue,
    conv_file,            \* the writes made to the audio file, in order
    fileState,            \* "unopened", "open", "closed"
    closeCount,           \* times the audio file was closed
    transcript_file,      \* the lines appended to the transcript file
    audio_chunk,          \* local of the relay loop (<<>> when none)
    transcript,           \* local of the relay loop (NoEvent when none)
    chunk,                \* local of the forwarding loop (<<>> when none)
    clientRecv,           \* frames received from the client, in order
    clientGotAudio,       \* frames sent to the client
    clientGotTx,          \* messages sent to the client
    agentDelivered,       \* frames put by on_audio_data
    eventsDelivered,      \* events put by on_conversation_text
    upstreamAudio,        \* chunks sent on the upstream connection
    finishCount,          \* calls of connection.finish()
    kaAfterSet,           \* keep-alives sent after the flag was set
                          \* (counted up to MaxKeepAlive)
    kaRaisedIn,           \* connection state in which a keep-alive send
                          \* raised ("none" when none did)
    writeFailures,        \* failed writes to either file
    headerArgs,           \* arguments of a call of create_wav_header
    header,               \* what that call returned (<<>> before it)
    now,                  \* the clock (datetime.utcnow()), in ticks
    sessions,             \* the concurrent runs of websocket_call, as far
                          \* as their files go
    files                 \* the files of the working directory, by name

vars == <<relayPc, relayExit, agentPc, agentExit, kaPc, connState,
          processing_complete, setCount, client_audio_queue,
          agent_audio_queue, transcript_queue, conv_file, fileState,
          closeCount, transcript_file, audio_chunk, transcript, chunk,
          clientRecv, clientGotAudio, clientGotTx, agentDelivered,
          eventsDelivered, upstreamAudio, finishCount,
          kaAfterSet, kaRaisedIn, writeFailures, headerArgs, header, now,
          sessions, files>>

relayVars == <<relayPc, relayExit, conv_file, fileState, closeCount,
               transcript_file, audio_chunk, transcript, clientRecv,
               clientGotAudio, clientGotTx, writeFailures>>
agentVars == <<agentPc, agentExit, chunk, upstreamAudio, finishCount>>
kaVars == <<kaPc, kaAfterSet, kaRaisedIn>>
flagVars == <<processing_complete, setCount>>
queueVars == <<client_audio_queue, agent_audio_queue, transcript_queue>>
envVars == <<agentDelivered, eventsDelivered>>
headerVars == <<headerArgs, header>>
dirVars == <<now, sessions, files>>

SessionInit ==
    /\ relayPc = "accepted"
    /\ relayExit = "none"
    /\ agentPc = "notstarted"
    /\ agentExit = "none"
    /\ kaPc = "notstarted"
    /\ connState = "none"
    /\ processing_complete = FALSE
    /\ setCount = 0
    /\ client_audio_queue = <<>>
    /\ agent_audio_queue = <<>>
    /\ transcript_queue = <<>>
    /\ conv_file = <<>>
    /\ fileState = "unopened"
    /\ closeCount = 0
    /\ transcript_file = <<>>
    /\ audio_chunk = <<>>
    /\ transcript = NoEvent
    /\ chunk = <<>>
    /\ clientRecv = <<>>
    /\ clientGotAudio = <<>>
    /\ clientGotTx = <<>>
    /\ agentDelivered = <<>>
    /\ eventsDelivered = <<>>
    /\ upstreamAudio = <<>>
    /\ finishCount = 0
    /\ kaAfterSet = 0
    /\ kaRaisedIn = "none"
    /\ writeFailures = 0

(* ---------------- a call of create_wav_header ---------------- *)

\* the arguments a call may be given
SampleRates == {8000, 16000, 22050, 24000, 44100, 48000}
BitDepths == {8, 16, 24, 32}
ChannelCounts == {1, 2, 6}
HeaderInputs ==
    [sample_rate : SampleRates, bits_per_sample : BitDepths,
     channels : ChannelCounts]

\* the defaults of create_wav_header, used by websocket_call
DefaultArgs ==
    [sample_rate |-> SampleRate, bits_per_sample |-> BitsPerSample,
     channels |-> Channels]

HeaderIdle ==
    /\ headerArgs = DefaultArgs
    /\ header = <<>>

(* ---------------- sessions and their files ---------------- *)

MaxSessions == 2
MaxTicks == 2
MaxSessionWrites == 1
\* the resolution of the model's clock
TicksPerSecond == 2

Sessions == 1..MaxSessions

\* session_id = datetime.utcnow().strftime("%Y%m%d%H%M%S"): the time in
\* whole seconds
SessionId(t) == t \div TicksPerSecond

\* f"conversation_{session_id}.wav", f"transcript_{session_id}.txt"
AudioName(session_id) == <<"conversation_", session_id, ".wav">>
TranscriptName(session_id) == <<"transcript_", session_id, ".txt">>

FileNames ==
    {AudioName(i) : i \in 0..SessionId(MaxTicks)}
        \cup {TranscriptName(i) : i \in 0..SessionId(MaxTicks)}

\* a connection that has not been accepted yet
NoSession == [pc |-> "idle", session_id |-> 0, pos |-> 0, written |-> 0]

\* bytes no session wrote (the gap a write beyond the end of a file leaves)
Hole == [by |-> 0, data |-> <<>>]

\* write entry e at position pos of file f (a file object opened with "wb"
\* writes at its own position)
WriteAt(f, pos, e) ==
    IF pos < Len(f)
    THEN [f EXCEPT ![pos + 1] = e]
    ELSE f \o [i \in 1..(pos - Len(f)) |-> Hole] \o <<e>>

DirIdle ==
    /\ now = 0
    /\ sessions = [s \in Sessions |-> NoSession]
    /\ files = [n \in FileNames |-> <<>>]

Init == SessionInit /\ HeaderIdle /\ DirIdle

(* ---------------- websocket_call ---------------- *)

\* leaving the `with open(...)` block closes the audio file
CloseFile ==
    /\ fileState' = "closed"
    /\ closeCount' = closeCount + 1

\* an exception other than WebSocketDisconnect leaves the handler:
\* the with-block closes the file, the flag is left alone
RelayRaise(why) ==
    /\ relayPc' = "done"
    /\ relayExit' = why
    /\ CloseFile
    /\ UNCHANGED flagVars

\* (variant) the handler also closes conv_file itself, before the with-block
RelayCatchDisconnect_ExplicitClose ==
    /\ relayPc' = "done"
    /\ relayExit' = "disconnect"
    /\ processing_complete' = EventSet(processing_complete)
    /\ setCount' = setCount + 1
    /\ fileState' = "closed"
    /\ closeCount' = closeCount + 2

\* except WebSocketDisconnect: processing_complete.set()
RelayCatchDisconnect ==
    /\ relayPc' = "done"
    /\ relayExit' = "disconnect"
    /\ processing_complete' = EventSet(processing_complete)
    /\ setCount' = setCount + 1
    /\ CloseFile

\* threading.Thread(target=deepgram_agent_thread, daemon=True).start()
RelayStartThread ==
    /\ relayPc = "accepted"
    /\ relayPc' = "open"
    /\ agentPc' = "setup"
    /\ UNCHANGED <<relayExit, conv_file, fileState, closeCount,
                   transcript_file, audio_chunk, transcript, clientRecv,
                   clientGotAudio, clientGotTx, writeFailures, agentExit,
                   chunk, upstreamAudio, finishCount, kaVars, connState,
                   flagVars, queueVars, envVars>>
    /\ UNCHANGED <<headerVars, dirVars>>

\* with open(conversation_audio_file, "wb"); conv_file.write(header)
RelayOpenFile ==
    /\ relayPc = "open"
    /\ \E ok \in BOOLEAN :
         IF ok
         THEN /\ fileState' = "open"
              /\ conv_file' = <<create_wav_header(SampleRate, BitsPerSample,
                                                  Channels)>>
              /\ relayPc' = "recv"
              /\ relayExit' = relayExit
         ELSE /\ fileState' = fileState
              /\ conv_file' = conv_file
              /\ relayPc' = "done"
              /\ relayExit' = "open_failed"
    /\ UNCHANGED <<closeCount, transcript_file, audio_chunk, transcript,
                   clientRecv, clientGotAudio, clientGotTx, writeFailures,
                   agentVars, kaVars, connState, flagVars, queueVars,
                   envVars>>
    /\ UNCHANGED <<headerVars, dirVars>>

\* data = await websocket.receive_bytes(); client_audio_queue.put(data);
\* conv_file.write(data)
RelayReceive ==
    /\ relayPc = "recv"
    /\ Len(clientRecv) < MaxClientFrames
    /\ \E data \in ClientFrames, written \in BOOLEAN :
         /\ clientRecv' = Append(clientRecv, data)
         /\ client_audio_queue' = Append(client_audio_queue, data)
         /\ IF written
            THEN /\ conv_file' = Append(conv_file, data)
                 /\ relayPc' = "audio_empty"
                 /\ UNCHANGED <<relayExit, fileState, closeCount,
                                writeFailures, flagVars>>
            ELSE /\ conv_file' = conv_file
                 /\ writeFailures' = writeFailures + 1
                 /\ RelayRaise("write_error")
    /\ UNCHANGED <<transcript_file, audio_chunk, transcript, clientGotAudio,
                   clientGotTx, agentVars, kaVars, connState,
                   agent_audio_queue, transcript_queue, envVars>>
    /\ UNCHANGED <<headerVars, dirVars>>

\* (variant) the disconnect handler writes the pending agent frames to the
\* audio file before it is closed
RelayDisconnect_Flush ==
    /\ relayPc = "recv"
    /\ RelayCatchDisconnect
    /\ conv_file' = conv_file \o agent_audio_queue
    /\ agent_audio_queue' = <<>>
    /\ UNCHANGED <<transcript_file, audio_chunk, transcript,
                   clientRecv, clientGotAudio, clientGotTx, writeFailures,
                   agentVars, kaVars, connState, client_audio_queue,
                   transcript_queue, envVars>>
    /\ UNCHANGED <<headerVars, dirVars>>

\* receive_bytes raises WebSocketDisconnect
RelayDisconnect ==
    /\ relayPc = "recv"
    /\ RelayCatchDisconnect
    /\ UNCHANGED <<conv_file, transcript_file, audio_chunk, transcript,
                   clientRecv, clientGotAudio, clientGotTx, writeFailures,
                   agentVars, kaVars, connState, queueVars, envVars>>
    /\ UNCHANGED <<headerVars, dirVars>>

\* receive_bytes raises another error
RelayTransportError ==
    /\ relayPc = "recv"
    /\ RelayRaise("transport_error")
    /\ UNCHANGED <<conv_file, transcript_file, audio_chunk, transcript,
                   clientRecv, clientGotAudio, clientGotTx, writeFailures,
                   agentVars, kaVars, connState, queueVars, envVars>>
    /\ UNCHANGED <<headerVars, dirVars>>

\* while not agent_audio_queue.empty():
RelayAudioEmpty ==
    /\ relayPc = "audio_empty"
    /\ relayPc' = IF agent_audio_queue = <<>> THEN "tx_empty" ELSE "audio_get"
    /\ UNCHANGED <<relayExit, conv_file, fileState, closeCount,
                   transcript_file, audio_chunk, transcript, clientRecv,
                   clientGotAudio, clientGotTx, writeFailures, agentVars,
                   kaVars, connState, flagVars, queueVars, envVars>>
    /\ UNCHANGED <<headerVars, dirVars>>

\* (variant) the frame is taken and sent on, the write to conv_file is
\* left out
RelayAudioGet_NoWrite ==
    /\ relayPc = "audio_get"
    /\ IF agent_audio_queue = <<>>
       THEN /\ RelayRaise("queue_empty")
            /\ UNCHANGED <<conv_file, audio_chunk, agent_audio_queue,
                           writeFailures>>
       ELSE /\ audio_chunk' = Head(agent_audio_queue)
            /\ agent_audio_queue' = Tail(agent_audio_queue)
            /\ relayPc' = "audio_send"
            /\ UNCHANGED <<conv_file, relayExit, fileState, closeCount,
                           writeFailures, flagVars>>
    /\ UNCHANGED <<transcript_file, transcript, clientRecv, clientGotAudio,
                   clientGotTx, agentVars, kaVars, connState,
                   client_audio_queue, transcript_queue, envVars>>
    /\ UNCHANGED <<headerVars, dirVars>>

\* audio_chunk = agent_audio_queue.get_nowait(); conv_file.write(audio_chunk)
RelayAudioGet ==
    /\ relayPc = "audio_get"
    /\ IF agent_audio_queue = <<>>
       THEN \* get_nowait raises queue.Empty
            /\ RelayRaise("queue_empty")
            /\ UNCHANGED <<conv_file, audio_chunk, agent_audio_queue,
                           writeFailures>>
       ELSE /\ audio_chunk' = Head(agent_audio_queue)
            /\ agent_audio_queue' = Tail(agent_audio_queue)
            /\ \E written \in BOOLEAN :
                 IF written
                 THEN /\ conv_file' = Append(conv_file, audio_chunk')
                      /\ relayPc' = "audio_send"
                      /\ UNCHANGED <<relayExit, fileState, closeCount,
                                     writeFailures, flagVars>>
                 ELSE /\ conv_file' = conv_file
                      /\ writeFailures' = writeFailures + 1
                      /\ RelayRaise("write_error")
    /\ UNCHANGED <<transcript_file, transcript, clientRecv, clientGotAudio,
                   clientGotTx, agentVars, kaVars, connState,
                   client_audio_queue, transcript_queue, envVars>>
    /\ UNCHANGED <<headerVars, dirVars>>

\* await websocket.send_bytes(audio_chunk)
RelayAudioSend ==
    /\ relayPc = "audio_send"
    /\ \E outcome \in {"sent", "disconnect", "error"} :
         CASE outcome = "sent" ->
                /\ clientGotAudio' = Append(clientGotAudio, audio_chunk)
                /\ relayPc' = "audio_empty"
                /\ UNCHANGED <<relayExit, fileState, closeCount, flagVars>>
           [] outcome = "disconnect" ->
                /\ RelayCatchDisconnect
                /\ UNCHANGED clientGotAudio
           [] outcome = "error" ->
                /\ RelayRaise("send_error")
                /\ UNCHANGED clientGotAudio
    /\ UNCHANGED <<conv_file, transcript_file, audio_chunk, transcript,
                   clientRecv, clientGotTx, writeFailures, agentVars, kaVars,
                   connState, queueVars, envVars>>
    /\ UNCHANGED <<headerVars, dirVars>>

\* while not transcript_queue.empty():
RelayTxEmpty ==
    /\ relayPc = "tx_empty"
    /\ relayPc' = IF transcript_queue = <<>> THEN "recv" ELSE "tx_get"
    /\ UNCHANGED <<relayExit, conv_file, fileState, closeCount,
                   transcript_file, audio_chunk, transcript, clientRecv,
                   clientGotAudio, clientGotTx, writeFailures, agentVars,
                   kaVars, connState, flagVars, queueVars, envVars>>
    /\ UNCHANGED <<headerVars, dirVars>>

\* transcript = transcript_queue.get_nowait();
\* await websocket.send_json({"type": "transcript", "data": transcript})
RelayTxGetSend ==
    /\ relayPc = "tx_get"
    /\ IF transcript_queue = <<>>
       THEN \* get_nowait raises queue.Empty
            /\ RelayRaise("queue_empty")
            /\ UNCHANGED <<transcript, transcript_queue, clientGotTx>>
       ELSE /\ transcript' = Head(transcript_queue)
            /\ transcript_queue' = Tail(transcript_queue)
            /\ \E outcome \in {"sent", "disconnect", "error"} :
                 CASE outcome = "sent" ->
                        /\ clientGotTx' = Append(clientGotTx,
                                             TranscriptMessage(transcript'))
                        /\ relayPc' = "tx_write"
                        /\ UNCHANGED <<relayExit, fileState, closeCount,
                                       flagVars>>
                   [] outcome = "disconnect" ->
                        /\ RelayCatchDisconnect
                        /\ UNCHANGED clientGotTx
                   [] outcome = "error" ->
                        /\ RelayRaise("send_error")
                        /\ UNCHANGED clientGotTx
    /\ UNCHANGED <<conv_file, transcript_file, audio_chunk, clientRecv,
                   clientGotAudio, writeFailures, agentVars, kaVars,
                   connState, client_audio_queue, agent_audio_queue, envVars>>
    /\ UNCHANGED <<headerVars, dirVars>>

\* with open(transcript_file, "a") as f: f.write(json.dumps(transcript)+"\n")
RelayTxWrite ==
    /\ relayPc = "tx_write"
    /\ \E written \in BOOLEAN :
         IF written
         THEN /\ transcript_file' = Append(transcript_file,
                                           TranscriptLine(transcript))
              /\ relayPc' = "tx_empty"
              /\ UNCHANGED <<relayExit, fileState, closeCount, writeFailures,
                             flagVars>>
         ELSE /\ transcript_file' = transcript_file
              /\ writeFailures' = writeFailures + 1
              /\ RelayRaise("write_error")
    /\ UNCHANGED <<conv_file, audio_chunk, transcript, clientRecv,
                   clientGotAudio, clientGotTx, agentVars, kaVars, connState,
                   queueVars, envVars>>
    /\ UNCHANGED <<headerVars, dirVars>>

Relay ==
    \/ RelayStartThread
    \/ RelayOpenFile
    \/ RelayReceive
    \/ RelayDisconnect
    \/ RelayTransportError
    \/ RelayAudioEmpty
    \/ RelayAudioGet
    \/ RelayAudioSend
    \/ RelayTxEmpty
    \/ RelayTxGetSend
    \/ RelayTxWrite

(* ---------------- deepgram_agent_thread ---------------- *)

\* except Exception as e: processing_complete.set()
AgentCatch ==
    /\ agentPc' = "done"
    /\ agentExit' = "exception"
    /\ processing_complete' = EventSet(processing_complete)
    /\ setCount' = setCount + 1

\* connection = deepgram_client.agent.websocket.v("1"), the options,
\* the start of the keep_alive thread and the registration of the callbacks
AgentSetup ==
    /\ agentPc = "setup"
    /\ \E ok \in BOOLEAN :
         IF ok
         THEN /\ connState' = "idle"
              /\ kaPc' = "check"
              /\ agentPc' = "start"
              /\ UNCHANGED <<agentExit, flagVars>>
         ELSE /\ AgentCatch
              /\ UNCHANGED <<connState, kaPc>>
    /\ UNCHANGED <<chunk, upstreamAudio, finishCount, kaAfterSet,
                   kaRaisedIn, relayVars, queueVars, envVars>>
    /\ UNCHANGED <<headerVars, dirVars>>

\* if not connection.start(options): processing_complete.set(); return
AgentStart ==
    /\ agentPc = "start"
    /\ \E outcome \in {"started", "refused", "raised"} :
         CASE outcome = "started" ->
                /\ connState' = "active"
                /\ agentPc' = "loop"
                /\ UNCHANGED <<agentExit, flagVars>>
           [] outcome = "refused" ->
                /\ connState' = "failed"
                /\ agentPc' = "done"
                /\ agentExit' = "handshake_failed"
                /\ processing_complete' = EventSet(processing_complete)
                /\ setCount' = setCount + 1
           [] outcome = "raised" ->
                /\ connState' = "failed"
                /\ AgentCatch
    /\ UNCHANGED <<chunk, upstreamAudio, finishCount, kaVars, relayVars,
                   queueVars, envVars>>
    /\ UNCHANGED <<headerVars, dirVars>>

\* while not processing_complete.is_set():
AgentLoop ==
    /\ agentPc = "loop"
    /\ agentPc' = IF processing_complete THEN "finish" ELSE "get"
    /\ UNCHANGED <<agentExit, chunk, upstreamAudio, finishCount, connState,
                   kaVars, flagVars, relayVars, queueVars, envVars>>
    /\ UNCHANGED <<headerVars, dirVars>>

\* (variant) the queue hands out its newest item first
AgentGet_Lifo ==
    /\ agentPc = "get"
    /\ IF client_audio_queue = <<>>
       THEN /\ agentPc' = "loop"
            /\ UNCHANGED <<chunk, client_audio_queue>>
       ELSE /\ chunk' = client_audio_queue[Len(client_audio_queue)]
            /\ client_audio_queue' = SubSeq(client_audio_queue, 1,
                                            Len(client_audio_queue) - 1)
            /\ agentPc' = "send"
    /\ UNCHANGED <<agentExit, upstreamAudio, finishCount, connState, kaVars,
                   flagVars, relayVars, agent_audio_queue, transcript_queue,
                   envVars>>
    /\ UNCHANGED <<headerVars, dirVars>>

\* (variant) the forwarding loop reads the agent's queue
AgentGet_WrongQueue ==
    /\ agentPc = "get"
    /\ IF agent_audio_queue = <<>>
       THEN /\ agentPc' = "loop"
            /\ UNCHANGED <<chunk, agent_audio_queue>>
       ELSE /\ chunk' = Head(agent_audio_queue)
            /\ agent_audio_queue' = Tail(agent_audio_queue)
            /\ agentPc' = "send"
    /\ UNCHANGED <<agentExit, upstreamAudio, finishCount, connState, kaVars,
                   flagVars, relayVars, client_audio_queue, transcript_queue,
                   envVars>>
    /\ UNCHANGED <<headerVars, dirVars>>

\* chunk = client_audio_queue.get(timeout=1); except queue.Empty: continue
AgentGet ==
    /\ agentPc = "get"
    /\ IF client_audio_queue = <<>>
       THEN /\ agentPc' = "loop"
            /\ UNCHANGED <<chunk, client_audio_queue>>
       ELSE /\ chunk' = Head(client_audio_queue)
            /\ client_audio_queue' = Tail(client_audio_queue)
            /\ agentPc' = "send"
    /\ UNCHANGED <<agentExit, upstreamAudio, finishCount, connState, kaVars,
                   flagVars, relayVars, agent_audio_queue, transcript_queue,
                   envVars>>
    /\ UNCHANGED <<headerVars, dirVars>>

\* connection.send(chunk)
AgentSend ==
    /\ agentPc = "send"
    /\ \E ok \in BOOLEAN :
         IF ok
         THEN /\ upstreamAudio' = Append(upstreamAudio, chunk)
              /\ agentPc' = "loop"
              /\ UNCHANGED <<agentExit, flagVars>>
         ELSE /\ AgentCatch
              /\ UNCHANGED upstreamAudio
    /\ UNCHANGED <<chunk, finishCount, connState, kaVars, relayVars,
                   queueVars, envVars>>
    /\ UNCHANGED <<headerVars, dirVars>>

\* connection.finish()
AgentFinish ==
    /\ agentPc = "finish"
    /\ finishCount' = finishCount + 1
    /\ connState' = "finished"
    /\ \E ok \in BOOLEAN :
         IF ok
         THEN /\ agentPc' = "done"
              /\ agentExit' = "finished"
              /\ UNCHANGED flagVars
         ELSE AgentCatch
    /\ UNCHANGED <<chunk, upstreamAudio, kaVars, relayVars, queueVars,
                   envVars>>
    /\ UNCHANGED <<headerVars, dirVars>>

Agent ==
    \/ AgentSetup
    \/ AgentStart
    \/ AgentLoop
    \/ AgentGet
    \/ AgentSend
    \/ AgentFinish

(* ---------------- keep_alive ---------------- *)

\* (variant) while True:
KeepAliveCheck_IgnoresFlag ==
    /\ kaPc = "check"
    /\ kaPc' = "send"
    /\ UNCHANGED <<kaAfterSet, kaRaisedIn, connState, agentVars,
                   flagVars, relayVars, queueVars, envVars>>
    /\ UNCHANGED <<headerVars, dirVars>>

\* while not processing_complete.is_set():
KeepAliveCheck ==
    /\ kaPc = "check"
    /\ kaPc' = IF processing_complete THEN "done" ELSE "send"
    /\ UNCHANGED <<kaAfterSet, kaRaisedIn, connState, agentVars,
                   flagVars, relayVars, queueVars, envVars>>
    /\ UNCHANGED <<headerVars, dirVars>>

\* connection.send(str(AgentKeepAlive())); time.sleep(5)
KeepAliveSend ==
    /\ kaPc = "send"
    /\ \E ok \in BOOLEAN :
         IF ok
         THEN /\ kaAfterSet' = IF processing_complete
                               THEN Min(kaAfterSet + 1, MaxKeepAlive)
                               ELSE kaAfterSet
              /\ kaPc' = "check"
              /\ UNCHANGED kaRaisedIn
         ELSE \* the exception ends the keep_alive thread
              /\ kaPc' = "done"
              /\ kaRaisedIn' = connState
              /\ UNCHANGED kaAfterSet
    /\ UNCHANGED <<connState, agentVars, flagVars, relayVars, queueVars,
                   envVars>>
    /\ UNCHANGED <<headerVars, dirVars>>

KeepAlive ==
    \/ KeepAliveCheck
    \/ KeepAliveSend

(* ---------------- callbacks of the upstream connection ---------------- *)

\* def on_audio_data(self, data, **kwargs): agent_audio_queue.put(data)
on_audio_data ==
    /\ connState = "active"
    /\ Len(agentDelivered) < MaxAgentFrames
    /\ \E data \in AgentFrames :
         /\ agent_audio_queue' = Append(agent_audio_queue, data)
         /\ agentDelivered' = Append(agentDelivered, data)
    /\ UNCHANGED <<eventsDelivered, client_audio_queue, transcript_queue,
                   connState, agentVars, kaVars, flagVars, relayVars>>
    /\ UNCHANGED <<headerVars, dirVars>>

\* def on_conversation_text(self, conversation_text, **kwargs):
\*     transcript_queue.put(conversation_text.__dict__)
on_conversation_text ==
    /\ connState = "active"
    /\ Len(eventsDelivered) < MaxEvents
    /\ \E conversation_text \in Events :
         /\ transcript_queue' = Append(transcript_queue, conversation_text)
         /\ eventsDelivered' = Append(eventsDelivered, conversation_text)
    /\ UNCHANGED <<agentDelivered, client_audio_queue, agent_audio_queue,
                   connState, agentVars, kaVars, flagVars, relayVars>>
    /\ UNCHANGED <<headerVars, dirVars>>

Upstream ==
    \/ on_audio_data
    \/ on_conversation_text

(* ---------------- specifications ---------------- *)

Next == Relay \/ Agent \/ KeepAlive \/ Upstream

Spec == Init /\ [][Next]_vars

\* the steps of the relay that do not wait for the client
RelayInternal ==
    \/ RelayStartThread
    \/ RelayOpenFile
    \/ RelayAudioEmpty
    \/ RelayAudioGet
    \/ RelayAudioSend
    \/ RelayTxEmpty
    \/ RelayTxGetSend
    \/ RelayTxWrite

\* every thread that can run does run; the client and the upstream agent
\* are free to stay silent
FairSpec ==
    /\ Init /\ [][Next]_vars
    /\ WF_vars(RelayInternal)
    /\ WF_vars(Agent)
    /\ WF_vars(KeepAlive)

(* ---------------- derived views ---------------- *)

IsClientFrame(f) == f \in ClientFrames
IsAgentFrame(f) == f \in AgentFrames

\* the writes after the header
Payload(file) == IF file = <<>> THEN <<>> ELSE Tail(file)

\* the relay loop ends because the client went away while it was receiving
EndsOnDisconnect == relayPc = "recv" /\ relayPc' = "done"
                    /\ relayExit' = "disconnect"

(* ---------------- claims ---------------- *)

\* C1 (as claimed): when the session ends, the payload of the audio file is
\* exactly the N frames received from the client and the M frames the agent
\* put on the outbound audio queue, each once and in order.
C1_RecordingHasEveryFrame ==
    [][EndsOnDisconnect =>
         /\ SelectSeq(Payload(conv_file'), IsClientFrame) = clientRecv'
         /\ SelectSeq(Payload(conv_file'), IsAgentFrame) = agentDelivered'
         /\ Len(Payload(conv_file')) = Len(clientRecv') + Len(agentDelivered')
      ]_vars

\* C2 (as claimed): when the session ends, every event put on the event
\* queue has exactly one line in the transcript file and exactly one
\* 'transcript' message sent to the client, in the order of the events.
C2_EveryEventRecordedAndSent ==
    [][EndsOnDisconnect =>
         /\ transcript_file' = [i \in 1..Len(eventsDelivered') |->
                                  TranscriptLine(eventsDelivered'[i])]
         /\ clientGotTx' = [i \in 1..Len(eventsDelivered') |->
                              TranscriptMessage(eventsDelivered'[i])]
      ]_vars

\* C3 (as claimed): whether the receive loop ends on a disconnect or on
\* another transport error, the Termination Signal ends up set and the
\* audio file is closed.
C3_LoopEndSetsSignal ==
    (relayExit \in {"disconnect", "transport_error"})
        ~> (processing_complete /\ fileState = "closed")

\* C4 (as claimed): after a failed handshake the session terminates without
\* waiting for the client: the Termination Signal is set, the relay loop
\* stops and the audio file is closed.
C4_HandshakeFailureEndsSession ==
    (agentExit = "handshake_failed")
        ~> (processing_complete /\ relayPc = "done" /\ fileState # "open")

\* C5 (as claimed): once the client transport has ended (disconnect or
\* error) the forwarding task and the keep-alive task stop and the audio
\* file is closed; no task of the session keeps running.
C5_NoSessionOutlivesClient ==
    (relayExit \in {"disconnect", "transport_error", "send_error"})
        ~> /\ agentPc = "done"
           /\ kaPc \in {"notstarted", "done"}
           /\ fileState = "closed"

\* C6: whichever of the client disconnect and the upstream failure sets the
\* Termination Signal first, connection.finish is called at most once and
\* the audio file is closed at most once, and exactly once when the client
\* has disconnected.
C6_SingleShutdown ==
    /\ finishCount <= 1
    /\ closeCount <= 1
    /\ (relayExit = "disconnect" => closeCount = 1 /\ fileState = "closed")

\* C6 witness: the client disconnected and the handshake failed, and both
\* the relay and the agent thread have set the signal.
C6_Witness ==
    /\ relayExit = "disconnect"
    /\ connState = "failed"
    /\ agentExit \in {"handshake_failed", "exception"}
    /\ setCount = 2
    /\ closeCount = 1

\* C7 (as claimed): a keep-alive message is sent only while the upstream
\* connection is Active (started, not failed, not finished).
C7_KeepAliveOnlyWhileActive ==
    [][(kaPc = "send" /\ kaPc' = "check") => connState = "active"]_vars

\* C8: after the Termination Signal is set the keep-alive task sends at most
\* one more message, and its next check of the flag ends it.
C8_KeepAliveCeases ==
    [][/\ kaAfterSet' <= 1
       /\ (processing_complete /\ kaPc = "check" /\ kaPc' # "check"
             => kaPc' = "done")
      ]_vars

\* C8 witness: one keep-alive went out after the signal was set (its check
\* of the flag came before the set) and the task has ended.
C8_Witness ==
    /\ processing_complete
    /\ kaAfterSet = 1
    /\ kaPc = "done"

\* C9 (as claimed): when opening the audio file fails, no upstream
\* connection is created or started and no keep-alive task runs.
C9_OpenFailureStopsSession ==
    relayExit = "open_failed" =>
        /\ connState = "none"
        /\ kaPc = "notstarted"

\* C10 (as claimed): a failed write to the audio file or to the transcript
\* file does not end the relay loop.
C10_WriteFailureDoesNotEndRelay ==
    [][writeFailures' > writeFailures => relayPc' # "done"]_vars

\* C11 (as claimed): an agent frame that arrived (was put on the outbound
\* audio queue) after the relay received client frame k and before it
\* receives frame k+1 is written to the audio file before frame k+1:
\* whenever frame k+1 (k >= 1) is appended, every agent frame delivered so
\* far is already in the file.
C11_RecordingInArrivalOrder ==
    [][(/\ Len(clientRecv) >= 1
        /\ Len(clientRecv') > Len(clientRecv)
        /\ conv_file' # conv_file) =>
         SelectSeq(Payload(conv_file), IsAgentFrame) = agentDelivered
      ]_vars

\* s is an initial segment of t
IsPrefix(s, t) == Len(s) <= Len(t) /\ SubSeq(t, 1, Len(s)) = s

\* the size of the header of the audio file, in bytes
HeaderSize == 44

\* C13: once the audio file has been opened its first write is the header,
\* exactly 44 bytes beginning with 'RIFF', every later write is an audio
\* frame (the header is not written again), and nothing is written to the
\* file before it is opened.
C13_HeaderFirstAndOnce ==
    /\ fileState = "unopened" => conv_file = <<>>
    /\ fileState # "unopened" =>
         /\ Len(conv_file) >= 1
         /\ Len(conv_file[1]) = HeaderSize
         /\ SubSeq(conv_file[1], 1, 4) = RIFF
         /\ \A i \in 2..Len(conv_file) :
              /\ conv_file[i] \in ClientFrames \cup AgentFrames
              /\ Len(conv_file[i]) < 4 \/ SubSeq(conv_file[i], 1, 4) # RIFF

\* C13 witness: an open file holding the header, a client frame and an
\* agent frame.
C13_Witness ==
    /\ fileState = "open"
    /\ Len(conv_file) >= 3
    /\ \E i \in 2..Len(conv_file) : conv_file[i] \in ClientFrames
    /\ \E i \in 2..Len(conv_file) : conv_file[i] \in AgentFrames

\* C15: the Termination Signal is monotonic: no step of any task clears
\* processing_complete once it is set.
C15_SignalMonotonic == [][processing_complete => processing_complete']_vars

\* C15 witness: set() has been called twice (by the relay and by the agent
\* thread) and the signal is set.
C15_Witness == processing_complete /\ setCount = 2

\* C16: the client frames sent on the upstream connection are always an
\* initial segment of the frames received from the client, and a frame is
\* sent upstream only on a started connection that has not been finished.
C16_UpstreamIsPrefixOfReceived ==
    [][/\ IsPrefix(upstreamAudio', clientRecv')
       /\ (upstreamAudio' # upstreamAudio =>
             connState = "active" /\ finishCount = 0)
      ]_vars

\* C16 witness: two different client frames were received and both were
\* sent upstream.
C16_Witness ==
    /\ Len(upstreamAudio) = 2
    /\ upstreamAudio[1] # upstreamAudio[2]
    /\ upstreamAudio = clientRecv

SentLines == [i \in 1..Len(clientGotTx) |-> TranscriptLine(clientGotTx[i].data)]

\* C18: in every reachable state the agent frames sent to the client are an
\* initial segment of the agent frames in the audio file (append precedes
\* send), and the lines of the transcript file are an initial segment of
\* the lines of the messages sent to the client (send precedes append).
C18_RecordSendOrder ==
    /\ IsPrefix(clientGotAudio, SelectSeq(Payload(conv_file), IsAgentFrame))
    /\ IsPrefix(transcript_file, SentLines)

\* C18 witness: a send failed in the middle of the audio drain: the frame
\* is in the file and was not sent, while an event message was sent and
\* written earlier.
C18_Witness ==
    /\ relayExit = "send_error"
    /\ Len(clientGotAudio) < Len(SelectSeq(Payload(conv_file), IsAgentFrame))
    /\ Len(transcript_file) = 1

\* C19: a get_nowait of the relay never finds its queue empty: between an
\* empty() that returned false and the get_nowait after it the queue keeps
\* its item, so the relay never ends on queue.Empty.
C19_DrainNeverFindsEmpty ==
    /\ relayPc = "audio_get" => agent_audio_queue # <<>>
    /\ relayPc = "tx_get" => transcript_queue # <<>>
    /\ relayExit # "queue_empty"

\* C19 witness: get_nowait returned an agent frame while the event callback
\* had put an event concurrently.
C19_Witness ==
    /\ relayPc = "audio_send"
    /\ audio_chunk \in AgentFrames
    /\ transcript_queue # <<>>

\* what the relay has delivered of the agent's output: the agent frames in
\* the audio file, the frames and messages sent to the client, the
\* transcript lines
AgentOutput ==
    <<SelectSeq(Payload(conv_file), IsAgentFrame), clientGotAudio,
      clientGotTx, transcript_file>>

\* C20: agent output is sent and recorded only in the drain part of an
\* iteration, which begins with a received client frame: while the relay
\* waits for the client, and once it has ended, no step delivers anything
\* and the items put by the agent stay in their queues.
C20_OutputDrivenByClientInput ==
    [][(relayPc \in {"accepted", "open", "recv", "done"}) =>
         /\ AgentOutput' = AgentOutput
         /\ IsPrefix(agent_audio_queue, agent_audio_queue')
         /\ IsPrefix(transcript_queue, transcript_queue')
      ]_vars

\* C20 witness: the client disconnected while an agent frame and an event
\* were still queued; they were neither sent nor recorded.
C20_Witness ==
    /\ relayExit = "disconnect"
    /\ agent_audio_queue # <<>>
    /\ transcript_queue # <<>>
    /\ clientGotAudio = <<>>
    /\ transcript_file = <<>>

(* ---------------- create_wav_header on its own ---------------- *)

mainVars == <<relayVars, agentVars, kaVars, flagVars, queueVars, envVars,
              connState>>

HeaderInit ==
    /\ SessionInit
    /\ DirIdle
    /\ headerArgs \in HeaderInputs
    /\ header = <<>>

\* header = create_wav_header(sample_rate, bits_per_sample, channels)
BuildHeader ==
    /\ header = <<>>
    /\ header' = create_wav_header(headerArgs.sample_rate,
                                   headerArgs.bits_per_sample,
                                   headerArgs.channels)
    /\ UNCHANGED <<headerArgs, mainVars, dirVars>>

HeaderNext == BuildHeader

HeaderSpec == HeaderInit /\ [][HeaderNext]_vars

(* ---------------- concurrent sessions in one directory ---------------- *)

\* time passes
ClockTick ==
    /\ now < MaxTicks
    /\ now' = now + 1
    /\ UNCHANGED <<sessions, files, mainVars, headerVars>>

\* await websocket.accept(); session_id = datetime.utcnow().strftime(...)
SessionAccept(s) ==
    /\ sessions[s].pc = "idle"
    /\ sessions' = [sessions EXCEPT ![s] =
                      [pc |-> "accepted", session_id |-> SessionId(now),
                       pos |-> 0, written |-> 0]]
    /\ UNCHANGED <<now, files, mainVars, headerVars>>

\* with open(conversation_audio_file, "wb") as conv_file:
\*     conv_file.write(create_wav_header())
SessionOpen(s) ==
    /\ sessions[s].pc = "accepted"
    /\ files' = [files EXCEPT ![AudioName(sessions[s].session_id)] =
                   <<[by |-> s,
                      data |-> create_wav_header(SampleRate, BitsPerSample,
                                                 Channels)]>>]
    /\ sessions' = [sessions EXCEPT ![s].pc = "open", ![s].pos = 1]
    /\ UNCHANGED <<now, mainVars, headerVars>>

\* conv_file.write(data)
SessionWriteAudio(s) ==
    /\ sessions[s].pc = "open"
    /\ sessions[s].written < MaxSessionWrites
    /\ \E data \in ClientFrames :
         files' = [files EXCEPT ![AudioName(sessions[s].session_id)] =
                     WriteAt(@, sessions[s].pos, [by |-> s, data |-> data])]
    /\ sessions' = [sessions EXCEPT ![s].pos = @ + 1, ![s].written = @ + 1]
    /\ UNCHANGED <<now, mainVars, headerVars>>

\* with open(transcript_file, "a") as f: f.write(json.dumps(transcript)+"\n")
SessionAppendTranscript(s) ==
    /\ sessions[s].pc = "open"
    /\ Len(files[TranscriptName(sessions[s].session_id)]) < MaxSessionWrites
    /\ \E e \in Events :
         files' = [files EXCEPT ![TranscriptName(sessions[s].session_id)] =
                     Append(@, [by |-> s, data |-> TranscriptLine(e)])]
    /\ UNCHANGED <<now, sessions, mainVars, headerVars>>

\* the handler ends and the with-block closes conv_file
SessionClose(s) ==
    /\ sessions[s].pc = "open"
    /\ sessions' = [sessions EXCEPT ![s].pc = "closed"]
    /\ UNCHANGED <<now, files, mainVars, headerVars>>

DirInit == SessionInit /\ HeaderIdle /\ DirIdle

DirNext ==
    \/ ClockTick
    \/ \E s \in Sessions : SessionAccept(s)
    \/ \E s \in Sessions : SessionOpen(s)
    \/ \E s \in Sessions : SessionWriteAudio(s)
    \/ \E s \in Sessions : SessionAppendTranscript(s)
    \/ \E s \in Sessions : SessionClose(s)

DirSpec == DirInit /\ [][DirNext]_vars

\* a session between accept and the end of its handler
Active(s) == sessions[s].pc \in {"accepted", "open"}

\* C12 (as claimed): two sessions that are active at the same time have
\* different audio files and different transcript files, and the audio file
\* of an open session holds only what that session wrote.
C12_NoSharedFiles ==
    \A s, t \in Sessions :
        (s # t /\ Active(s) /\ Active(t)) =>
            /\ AudioName(sessions[s].session_id)
                 # AudioName(sessions[t].session_id)
            /\ TranscriptName(sessions[s].session_id)
                 # TranscriptName(sessions[t].session_id)
            /\ sessions[s].pc = "open" =>
                 \A i \in 1..Len(files[AudioName(sessions[s].session_id)]) :
                     files[AudioName(sessions[s].session_id)][i].by = s

\* the number a little-endian field holds
RECURSIVE FromBytesLE(_)
FromBytesLE(b) ==
    IF b = <<>> THEN 0 ELSE Head(b) + 256 * FromBytesLE(Tail(b))

\* bytes first..last of the header, counted from 0 as in the code
Field(h, first, last) == SubSeq(h, first + 1, last + 1)

\* what byte_rate and block_align are to be
ExpectedByteRate ==
    (headerArgs.sample_rate * headerArgs.channels
        * headerArgs.bits_per_sample) \div 8
ExpectedBlockAlign == (headerArgs.channels * headerArgs.bits_per_sample) \div 8

\* C14 (as claimed): the header has 44 bytes, its "remaining size" field
\* (bytes 4-7) and its "data size" field (bytes 40-43) are zero, and
\* byte_rate and block_align are in their fields.
C14_HeaderSizesZero ==
    header # <<>> =>
        /\ Len(header) = HeaderSize
        /\ FromBytesLE(Field(header, 4, 7)) = 0
        /\ FromBytesLE(Field(header, 40, 43)) = 0
        /\ FromBytesLE(Field(header, 28, 31)) = ExpectedByteRate
        /\ FromBytesLE(Field(header, 32, 33)) = ExpectedBlockAlign

\* C14 (amended): the header has 44 bytes, its "remaining size" field
\* (bytes 4-7) is 36, its "data size" field (bytes 40-43) is zero, and
\* byte_rate and block_align are in their fields.
C14_HeaderFields ==
    header # <<>> =>
        /\ Len(header) = HeaderSize
        /\ FromBytesLE(Field(header, 4, 7)) = 36
        /\ FromBytesLE(Field(header, 40, 43)) = 0
        /\ FromBytesLE(Field(header, 28, 31)) = ExpectedByteRate
        /\ FromBytesLE(Field(header, 32, 33)) = ExpectedBlockAlign

\* C14 witness: a header built for stereo at 44100 Hz, 24 bits.
C14_Witness ==
    /\ header # <<>>
    /\ headerArgs.sample_rate = 44100
    /\ headerArgs.channels = 2
    /\ headerArgs.bits_per_sample = 24

====
